---- MODULE Spec2Model ----
(***************************************************************************)
(* A model of pdf_chapter_splitter.py: the outline walk                    *)
(* (get_pdf_outline_info), the classification filter                       *)
(* (filter_top_level_chapters), the range calculator                       *)
(* (calculate_page_ranges) and the run of split_pdf_by_chapters with its   *)
(* confirmation prompt, artifact loop (perform_pdf_split) and manifest     *)
(* (generate_chapter_summary).                                             *)
(*                                                                         *)
(* Strings are sequences of one-character strings, so that the regular     *)
(* expressions of the source are computed character by character.         *)
(***************************************************************************)
EXTENDS Integers, Sequences, FiniteSets, TLC

VARIABLES pc, outline, max_level, outline_info, top_level_chapters,
          total_pages, sections, unidentified_sections, add_sequence,
          response, dir_created, files, manifest, write_errors,
          section_index, message

(***************************************************************************)
(* pc                     where the run (or the call) stands               *)
(* outline                reader.outline: the nested list of bookmarks     *)
(* max_level              the max_level handed to get_pdf_outline_info     *)
(* outline_info           the anchors (title, page_index, level)           *)
(* top_level_chapters     the anchors handed to calculate_page_ranges      *)
(* total_pages            len(reader.pages)                                *)
(* sections               the chapter segments, then the merged list       *)
(* unidentified_sections  the gap segments                                 *)
(* add_sequence           the parameter of split_pdf_by_chapters           *)
(* response               what input() returned at the prompt              *)
(* dir_created            os.makedirs made the output directory            *)
(* files                  the artifacts of the output directory            *)
(* manifest               the summary CSV of the output directory          *)
(* write_errors           the artifact writes that raised                  *)
(* section_index          the loop position of perform_pdf_split, 1-based  *)
(* message                the line printed when the run ended              *)
(***************************************************************************)
vars == <<pc, outline, max_level, outline_info, top_level_chapters,
          total_pages, sections, unidentified_sections, add_sequence,
          response, dir_created, files, manifest, write_errors,
          section_index, message>>

(***************************************************************************)
(* Bounds of the model.                                                    *)
(***************************************************************************)
\* anchors handed to calculate_page_ranges
MaxAnchors == 3
\* largest 0-based page_index of an anchor handed to calculate_page_ranges
MaxPageIndex == 4
\* largest total_pages handed to calculate_page_ranges
MaxPages == 4
\* anchors handed to filter_top_level_chapters
MaxFilterLen == 3
\* nodes (bookmarks and nested lists) of an outline tree
MaxOutlineNodes == 5
\* largest max_level handed to get_pdf_outline_info
MaxLevel == 2
\* nodes of the outline tree of the document of a run
MaxRunNodes == 2
\* largest page_index an outline item of a run resolves to
MaxRunPageIndex == 1
\* largest page count of the document of a run
MaxRunPages == 2

(***************************************************************************)
(* Characters and strings.                                                 *)
(***************************************************************************)
UpperChars == <<"A","B","C","D","E","F","G","H","I","J","K","L","M","N","O","P","Q","R","S","T","U","V","W","X","Y","Z">>

LowerChars == <<"a","b","c","d","e","f","g","h","i","j","k","l","m","n","o","p","q","r","s","t","u","v","w","x","y","z">>

DigitChars == <<"0","1","2","3","4","5","6","7","8","9">>

Range(s) == {s[i] : i \in 1..Len(s)}

DigitSet == Range(DigitChars)

UpperSet == Range(UpperChars)

\* \d
IsDigit(c) == c \in DigitSet

\* [A-Z]
IsUpper(c) == c \in UpperSet

\* \s
IsSpace(c) == c \in {" ", "\t", "\n", "\r"}

\* [\dA-Z]
IsDigitOrUpper(c) == IsDigit(c) \/ IsUpper(c)

\* str.lower() of one character
LowerChar(c) ==
    IF IsUpper(c)
    THEN LowerChars[CHOOSE i \in 1..Len(UpperChars) : UpperChars[i] = c]
    ELSE c

\* str.lower()
Lower(s) == [i \in 1..Len(s) |-> LowerChar(s[i])]

\* str(n) for n >= 0
RECURSIVE IntToStr(_)
IntToStr(n) ==
    IF n < 10 THEN <<DigitChars[n + 1]>>
    ELSE IntToStr(n \div 10) \o <<DigitChars[(n % 10) + 1]>>

\* "0" * k
RECURSIVE Zeros(_)
Zeros(k) == IF k <= 0 THEN <<>> ELSE <<"0">> \o Zeros(k - 1)

\* f"{n:0{width}d}"
ZeroPad(n, width) == Zeros(width - Len(IntToStr(n))) \o IntToStr(n)

\* the literal lit at position i of t (1-based)
LitAt(t, i, lit) ==
    /\ i + Len(lit) - 1 <= Len(t)
    /\ \A k \in 1..Len(lit) : t[i + k - 1] = lit[k]

\* the literal lit at position i of t, re.IGNORECASE
LitAtIgnoreCase(t, i, lit) ==
    /\ i + Len(lit) - 1 <= Len(t)
    /\ \A k \in 1..Len(lit) : LowerChar(t[i + k - 1]) = LowerChar(lit[k])

\* the first position >= i of t that holds no whitespace (Len(t)+1 if none)
RECURSIVE SkipSpace(_, _)
SkipSpace(t, i) ==
    IF i <= Len(t) /\ IsSpace(t[i]) THEN SkipSpace(t, i + 1) ELSE i

\* the first position >= i of t that holds no digit
RECURSIVE SkipDigits(_, _)
SkipDigits(t, i) ==
    IF i <= Len(t) /\ IsDigit(t[i]) THEN SkipDigits(t, i + 1) ELSE i

\* the first position >= i of t that holds neither a digit nor A-Z
RECURSIVE SkipDigitOrUpper(_, _)
SkipDigitOrUpper(t, i) ==
    IF i <= Len(t) /\ IsDigitOrUpper(t[i]) THEN SkipDigitOrUpper(t, i + 1) ELSE i

(***************************************************************************)
(* The words of the patterns.                                              *)
(***************************************************************************)
ChapterWord == <<"C","h","a","p","t","e","r">>

AppendixWord == <<"A","p","p","e","n","d","i","x">>

ExcludeWords ==
    { <<"G","l","o","s","s","a","r","y">>,
      <<"R","e","f","e","r","e","n","c","e","s">>,
      <<"I","n","d","e","x">>,
      <<"S","o","l","u","t","i","o","n","s">>,
      <<"R","e","v","i","e","w"," ","Q","u","e","s","t","i","o","n","s">>,
      <<"C","r","i","t","i","c","a","l"," ","T","h","i","n","k","i","n","g"," ","Q","u","e","s","t","i","o","n","s">>,
      <<"S","e","l","f","-","C","h","e","c","k"," ","Q","u","e","s","t","i","o","n","s">>,
      <<"K","e","y"," ","C","o","n","c","e","p","t","s">> }

UnidentifiedPagesWord == <<"U","n","i","d","e","n","t","i","f","i","e","d"," ","P","a","g","e","s"," ">>

UnidentifiedWord == <<"U","n","i","d","e","n","t","i","f","i","e","d"," ">>

PdfSuffix == <<".","p","d","f">>

\* the value of a missing page (None), and of a missing chapter key (None)
NoPage == -1

NoKey == <<>>

(***************************************************************************)
(* The regular expressions of filter_top_level_chapters.                   *)
(***************************************************************************)
\* r'^Chapter\s+\d+'
MatchesChapterHeading(t) ==
    /\ LitAt(t, 1, ChapterWord)
    /\ LET j == SkipSpace(t, Len(ChapterWord) + 1)
       IN /\ j > Len(ChapterWord) + 1
          /\ j <= Len(t)
          /\ IsDigit(t[j])

\* r'^Appendix\s+[A-Z]'
MatchesAppendixHeading(t) ==
    /\ LitAt(t, 1, AppendixWord)
    /\ LET j == SkipSpace(t, Len(AppendixWord) + 1)
       IN /\ j > Len(AppendixWord) + 1
          /\ j <= Len(t)
          /\ IsUpper(t[j])

\* any(re.search(pattern, title) for pattern in chapter_patterns)
is_chapter(t) == MatchesChapterHeading(t) \/ MatchesAppendixHeading(t)

\* r'^\d+\.\d+' (re.IGNORECASE changes nothing for digits and the dot)
MatchesSubsection(t) ==
    LET j == SkipDigits(t, 1)
    IN /\ j > 1
       /\ j + 1 <= Len(t)
       /\ t[j] = "."
       /\ IsDigit(t[j + 1])

\* any(re.search(pattern, title, re.IGNORECASE) for pattern in exclude_patterns)
is_excluded(t) ==
    \/ MatchesSubsection(t)
    \/ \E w \in ExcludeWords : LitAtIgnoreCase(t, 1, w)

\* r'(Chapter|Appendix)\s+([\dA-Z]+)' matched at position i of t with word w
KeyMatchAt(t, i, w) ==
    /\ LitAt(t, i, w)
    /\ LET j == SkipSpace(t, i + Len(w))
       IN /\ j > i + Len(w)
          /\ j <= Len(t)
          /\ IsDigitOrUpper(t[j])

\* the leftmost position >= i of t where re.search finds the pattern, 0 if none
RECURSIVE KeySearchFrom(_, _)
KeySearchFrom(t, i) ==
    IF i > Len(t) THEN 0
    ELSE IF KeyMatchAt(t, i, ChapterWord) \/ KeyMatchAt(t, i, AppendixWord) THEN i
         ELSE KeySearchFrom(t, i + 1)

\* f"{group(1)} {group(2)}" of the match at position i: the word, one space,
\* and the identifier [\dA-Z]+ taken greedily
KeyAt(t, i) ==
    LET w == IF LitAt(t, i, ChapterWord) THEN ChapterWord ELSE AppendixWord
        j == SkipSpace(t, i + Len(w))
    IN w \o <<" ">> \o SubSeq(t, j, SkipDigitOrUpper(t, j) - 1)

\* group(2) of the match at position i
KeyIdentifierAt(t, i) ==
    LET w == IF LitAt(t, i, ChapterWord) THEN ChapterWord ELSE AppendixWord
        j == SkipSpace(t, i + Len(w))
    IN SubSeq(t, j, SkipDigitOrUpper(t, j) - 1)

\* chapter_key of lines 101-104: None without a match
chapter_key(t) ==
    LET i == KeySearchFrom(t, 1)
    IN IF i = 0 THEN NoKey ELSE KeyAt(t, i)

(***************************************************************************)
(* get_pdf_outline_info: the depth-bounded walk of the outline tree.      *)
(* A node of the tree is a bookmark (kind "dest": a Destination with its   *)
(* title and the page get_page_number resolves it to, NoPage for None) or  *)
(* a nested list (kind "list") of nodes.                                   *)
(***************************************************************************)
DestNode(title, page) == [kind |-> "dest", title |-> title, page |-> page, items |-> <<>>]

ListNode(items) == [kind |-> "list", title |-> <<>>, page |-> NoPage, items |-> items]

\* the record appended at lines 44-48
Anchor(title, page_index, level) ==
    [title |-> title, page_index |-> page_index, level |-> level]

\* line 52 with "<=" for "<": one level too deep
Descends_OneTooDeep(level, max_lvl) == level <= max_lvl

\* the guard of the recursion, line 52
Descends(level, max_lvl) == level < max_lvl

\* the level handed to the recursive call, line 54
NextLevel(level) == level + 1

RECURSIVE get_pdf_outline_info(_, _, _)
RECURSIVE OutlineLoop(_, _, _, _)
\* the for loop of lines 37-57 from item k on
OutlineLoop(items, k, level, max_lvl) ==
    IF k > Len(items) THEN <<>>
    ELSE LET item == items[k]
             here == IF item.kind = "dest"
                     THEN IF item.page # NoPage
                          THEN <<Anchor(item.title, item.page, level)>>
                          ELSE <<>>
                     ELSE IF Descends(level, max_lvl)
                          THEN get_pdf_outline_info(item.items, NextLevel(level), max_lvl)
                          ELSE <<>>
         IN here \o OutlineLoop(items, k + 1, level, max_lvl)

get_pdf_outline_info(items, level, max_lvl) == OutlineLoop(items, 1, level, max_lvl)

(***************************************************************************)
(* filter_top_level_chapters.                                              *)
(***************************************************************************)
\* item.get("level", 0) == 0
is_top_level(item) == item.level = 0

\* line 107 with "is_chapter or" dropped: only depth-0 items are kept
KeepItem_TopLevelOnly(item, key, seen) ==
    /\ is_top_level(item)
    /\ key = NoKey \/ key \notin seen

\* the condition of line 107
KeepItem(item, key, seen) ==
    /\ is_chapter(item.title) \/ is_top_level(item)
    /\ key = NoKey \/ key \notin seen

\* lines 108-109 left out: no key is ever remembered
SeenAfter_Forgets(key, seen) == seen

\* seen_chapters after an accepted item, lines 108-109
SeenAfter(key, seen) == IF key # NoKey THEN seen \cup {key} ELSE seen

\* the for loop of lines 87-110 from item k on
RECURSIVE FilterLoop(_, _, _, _)
FilterLoop(items, k, kept, seen) ==
    IF k > Len(items) THEN kept
    ELSE LET item == items[k]
             key == chapter_key(item.title)
         IN IF is_excluded(item.title)
            THEN FilterLoop(items, k + 1, kept, seen)
            ELSE IF KeepItem(item, key, seen)
                 THEN FilterLoop(items, k + 1, Append(kept, item), SeenAfter(key, seen))
                 ELSE FilterLoop(items, k + 1, kept, seen)

filter_top_level_chapters(items) == FilterLoop(items, 1, <<>>, {})

(***************************************************************************)
(* calculate_page_ranges.                                                  *)
(***************************************************************************)
\* x inserted into the sorted sequence s after every element with key <= its own
RECURSIVE InsertByPage(_, _)
InsertByPage(s, x) ==
    IF s = <<>> THEN <<x>>
    ELSE IF s[Len(s)].page_index <= x.page_index THEN Append(s, x)
         ELSE Append(InsertByPage(SubSeq(s, 1, Len(s) - 1), x), s[Len(s)])

\* the sort of line 123 left out
SortByPageIndex_Unsorted(s) == s

\* outline_info.sort(key=lambda x: x["page_index"]): a stable sort
RECURSIVE SortByPageIndex(_)
SortByPageIndex(s) ==
    IF s = <<>> THEN <<>>
    ELSE InsertByPage(SortByPageIndex(SubSeq(s, 1, Len(s) - 1)), s[Len(s)])

\* line 136 without its "- 1": a chapter running onto the next anchor's page
EndIndex_OntoNextAnchor(sorted, i, total) ==
    IF i + 1 <= Len(sorted) THEN sorted[i + 1].page_index ELSE total - 1

\* end_index of the i-th anchor (1-based) of the sorted list, lines 135-138
EndIndex(sorted, i, total) ==
    IF i + 1 <= Len(sorted) THEN sorted[i + 1].page_index - 1 ELSE total - 1

\* line 141 with ">=": an anchor with a one-page range is dropped too
ValidRange_Strict(start_index, end_index) == start_index < end_index

\* the test of line 141 negated: the anchor yields a section
ValidRange(start_index, end_index) == ~(start_index > end_index)

\* the record appended at lines 149-154
Section(name, start_page, end_page) ==
    [name |-> name, start_page |-> start_page, end_page |-> end_page,
     total_pages |-> end_page - start_page + 1]

\* sections after the loop of lines 130-159 from anchor i on
RECURSIVE ChapterLoop(_, _, _)
ChapterLoop(sorted, i, total) ==
    IF i > Len(sorted) THEN <<>>
    ELSE LET start_index == sorted[i].page_index
             end_index == EndIndex(sorted, i, total)
         IN (IF ValidRange(start_index, end_index)
             THEN <<Section(sorted[i].title, start_index + 1, end_index + 1)>>
             ELSE <<>>)
            \o ChapterLoop(sorted, i + 1, total)

\* covered_ranges after the same loop: the (start_index, end_index) pairs
RECURSIVE CoveredLoop(_, _, _)
CoveredLoop(sorted, i, total) ==
    IF i > Len(sorted) THEN <<>>
    ELSE LET start_index == sorted[i].page_index
             end_index == EndIndex(sorted, i, total)
         IN (IF ValidRange(start_index, end_index)
             THEN <<<<start_index, end_index>>>>
             ELSE <<>>)
            \o CoveredLoop(sorted, i + 1, total)

RECURSIVE InsertByStart(_, _)
InsertByStart(s, x) ==
    IF s = <<>> THEN <<x>>
    ELSE IF s[Len(s)][1] <= x[1] THEN Append(s, x)
         ELSE Append(InsertByStart(SubSeq(s, 1, Len(s) - 1), x), s[Len(s)])

\* covered_ranges.sort(key=lambda x: x[0])
RECURSIVE SortCovered(_)
SortCovered(s) ==
    IF s = <<>> THEN <<>>
    ELSE InsertByStart(SortCovered(SubSeq(s, 1, Len(s) - 1)), s[Len(s)])

\* f"Unidentified Pages {a}-{b}"
GapName(a, b) == UnidentifiedPagesWord \o IntToStr(a) \o <<"-">> \o IntToStr(b)

\* the record appended at lines 171-176 for a gap before a covered range
GapBefore(current_page, start) ==
    [name |-> GapName(current_page + 1, (start - 1) + 1),
     start_page |-> current_page + 1,
     end_page |-> (start - 1) + 1,
     total_pages |-> (start - 1) - current_page + 1]

\* the record appended at lines 182-187 for the gap at the end
GapAtEnd(current_page, total) ==
    [name |-> GapName(current_page + 1, total),
     start_page |-> current_page + 1,
     end_page |-> total,
     total_pages |-> total - current_page]

\* the loop of lines 165-177 from range k on and the test of line 180
RECURSIVE GapLoop(_, _, _, _)
GapLoop(covered, k, current_page, total) ==
    IF k > Len(covered)
    THEN IF current_page < total THEN <<GapAtEnd(current_page, total)>> ELSE <<>>
    ELSE (IF current_page < covered[k][1]
          THEN <<GapBefore(current_page, covered[k][1])>>
          ELSE <<>>)
         \o GapLoop(covered, k + 1, covered[k][2] + 1, total)

\* the pair (sections, unidentified_sections) returned at line 189
calculate_page_ranges(info, total) ==
    LET sorted == SortByPageIndex(info)
    IN <<ChapterLoop(sorted, 1, total),
         GapLoop(SortCovered(CoveredLoop(sorted, 1, total)), 1, 0, total)>>

(***************************************************************************)
(* Values of the variables an operation does not use.                      *)
(***************************************************************************)
NoManifest == [written |-> FALSE, rows |-> <<>>]

\* nothing printed yet about how the run ended
NoMessage == "none"

\* input() has not returned yet
NoResponse == <<"<none>">>

(***************************************************************************)
(* SpecCalc: calculate_page_ranges called on every anchor list of the      *)
(* bounds, in every order, pages past the end of the document included.    *)
(***************************************************************************)
CalcTitles == {<<"A">>, <<"B">>}

CalcAnchors == {Anchor(t, p, 0) : t \in CalcTitles, p \in 0..MaxPageIndex}

InitCalc ==
    /\ pc = "calc_call"
    /\ \E n \in 0..MaxAnchors : top_level_chapters \in [1..n -> CalcAnchors]
    /\ total_pages \in 1..MaxPages
    /\ outline = <<>>
    /\ max_level = 0
    /\ outline_info = <<>>
    /\ sections = <<>>
    /\ unidentified_sections = <<>>
    /\ add_sequence = TRUE
    /\ response = NoResponse
    /\ dir_created = FALSE
    /\ files = {}
    /\ manifest = NoManifest
    /\ write_errors = 0
    /\ section_index = 0
    /\ message = NoMessage

\* sections, unidentified_sections = calculate_page_ranges(top_level_chapters, total_pages);
\* the list handed in is sorted in place (line 123)
CallCalculate ==
    /\ pc = "calc_call"
    /\ sections' = calculate_page_ranges(top_level_chapters, total_pages)[1]
    /\ unidentified_sections' = calculate_page_ranges(top_level_chapters, total_pages)[2]
    /\ top_level_chapters' = SortByPageIndex(top_level_chapters)
    /\ pc' = "calc_done"
    /\ UNCHANGED <<outline, max_level, outline_info, total_pages, add_sequence,
                   response, dir_created, files, manifest, write_errors,
                   section_index, message>>

NextCalc == CallCalculate

SpecCalc == InitCalc /\ [][NextCalc]_vars

(***************************************************************************)
(* Notions the properties of the calculator are stated in.                 *)
(***************************************************************************)
RECURSIVE InsertByStartPage(_, _)
InsertByStartPage(s, x) ==
    IF s = <<>> THEN <<x>>
    ELSE IF s[Len(s)].start_page <= x.start_page THEN Append(s, x)
         ELSE Append(InsertByStartPage(SubSeq(s, 1, Len(s) - 1), x), s[Len(s)])

\* a segment list sorted by start_page
RECURSIVE SortByStartPage(_)
SortByStartPage(s) ==
    IF s = <<>> THEN <<>>
    ELSE InsertByStartPage(SortByStartPage(SubSeq(s, 1, Len(s) - 1)), s[Len(s)])

\* chapter and gap segments merged and sorted by start_page
MergedSorted(pair) == SortByStartPage(pair[1] \o pair[2])

\* segments [1, total] is tiled by
Tiles(m, total) ==
    /\ Len(m) >= 1
    /\ m[1].start_page = 1
    /\ m[Len(m)].end_page = total
    /\ \A i \in 1..(Len(m) - 1) : m[i + 1].start_page = m[i].end_page + 1

AnchorsInRange == \A i \in 1..Len(top_level_chapters) :
    /\ top_level_chapters[i].page_index >= 0
    /\ top_level_chapters[i].page_index < total_pages

SharedPage == \E i, j \in 1..Len(top_level_chapters) :
    i # j /\ top_level_chapters[i].page_index = top_level_chapters[j].page_index

\* C1: when every anchor lies in [0, total_pages), the chapter and gap
\* segments calculate_page_ranges returns, merged and sorted by start_page,
\* tile [1, total_pages]: first start 1, last end total_pages, each next
\* start the previous end + 1.
C1_PartitionInvariant ==
    (pc = "calc_done" /\ AnchorsInRange)
        => Tiles(MergedSorted(<<sections, unidentified_sections>>), total_pages)

\* a call with in-range anchors, two of them on one page, that returns two
\* chapter segments and a gap segment
C1_Witness ==
    /\ pc = "calc_done"
    /\ AnchorsInRange
    /\ SharedPage
    /\ Len(sections) = 2
    /\ Len(unidentified_sections) = 1

AllSegments == sections \o unidentified_sections

\* C2: every segment calculate_page_ranges returns, chapter or gap, has
\* 1 <= start_page <= end_page <= total_pages and a page count of
\* end_page - start_page + 1, whatever anchors point past the end.
C2_SegmentsWithinDocument ==
    pc = "calc_done" =>
        \A i \in 1..Len(AllSegments) :
            /\ 1 <= AllSegments[i].start_page
            /\ AllSegments[i].start_page <= AllSegments[i].end_page
            /\ AllSegments[i].end_page <= total_pages
            /\ AllSegments[i].total_pages
                   = AllSegments[i].end_page - AllSegments[i].start_page + 1

\* the orders a list can be handed in
Perms(s) ==
    {[i \in 1..Len(s) |-> s[f[i]]] :
        f \in {g \in [1..Len(s) -> 1..Len(s)] :
                  \A i, j \in 1..Len(s) : g[i] = g[j] => i = j}}

PageRanges(m) == [i \in 1..Len(m) |-> <<m[i].start_page, m[i].end_page>>]

\* anchors on one page carry one title
SharedPagesShareTitle == \A i, j \in 1..Len(top_level_chapters) :
    top_level_chapters[i].page_index = top_level_chapters[j].page_index
        => top_level_chapters[i].title = top_level_chapters[j].title

\* C3 as stated: every order of the same anchors yields the identical sorted
\* segment sequence (names, start pages, end pages), anchors sharing a
\* page_index included.
C3_OrderIndependent ==
    pc = "calc_done" =>
        \A perm \in Perms(top_level_chapters) :
            MergedSorted(calculate_page_ranges(perm, total_pages))
                = MergedSorted(<<sections, unidentified_sections>>)

\* C3 amended: every order of the same anchors yields the same start and end
\* pages, and the identical sorted segment sequence, names included, when the
\* anchors that share a page_index have the same title.
C3_OrderIndependentAmended ==
    pc = "calc_done" =>
        \A perm \in Perms(top_level_chapters) :
            LET a == MergedSorted(calculate_page_ranges(perm, total_pages))
                b == MergedSorted(<<sections, unidentified_sections>>)
            IN /\ PageRanges(a) = PageRanges(b)
               /\ SharedPagesShareTitle => a = b

\* three anchors, two of them with one title on one page and a third with
\* another title elsewhere, that give two chapter segments
C3_Witness ==
    /\ pc = "calc_done"
    /\ Len(top_level_chapters) = 3
    /\ SharedPage
    /\ SharedPagesShareTitle
    /\ \E i, j \in 1..3 : top_level_chapters[i].title # top_level_chapters[j].title
    /\ Len(sections) = 2

\* a page of [1, total_pages] some returned chapter segment covers
CoveredPage(p) == \E i \in 1..Len(sections) :
    sections[i].start_page <= p /\ p <= sections[i].end_page

\* the maximal runs of pages of [1, total_pages] no chapter segment covers
UncoveredRuns ==
    {r \in (1..total_pages) \X (1..total_pages) :
        /\ r[1] <= r[2]
        /\ \A p \in r[1]..r[2] : ~CoveredPage(p)
        /\ r[1] = 1 \/ CoveredPage(r[1] - 1)
        /\ r[2] = total_pages \/ CoveredPage(r[2] + 1)}

\* C10: the gap segments are exactly the maximal runs of pages of
\* [1, total_pages] no returned chapter segment covers, one segment per run,
\* never empty, counted end_page - start_page + 1 and named
\* "Unidentified Pages <start_page>-<end_page>".
C10_GapsAreUncoveredRuns ==
    pc = "calc_done" =>
        /\ {<<unidentified_sections[i].start_page, unidentified_sections[i].end_page>> :
               i \in 1..Len(unidentified_sections)} = UncoveredRuns
        /\ Len(unidentified_sections) = Cardinality(UncoveredRuns)
        /\ \A i \in 1..Len(unidentified_sections) :
              LET g == unidentified_sections[i]
              IN /\ g.start_page <= g.end_page
                 /\ g.total_pages = g.end_page - g.start_page + 1
                 /\ g.name = GapName(g.start_page, g.end_page)

\* C12: for every anchor list with page_index >= 0 and every total_pages >= 1
\* the kept chapter ranges are contiguous with one another and
\* calculate_page_ranges returns at most one gap segment; a returned gap
\* starts at page 1 and either ends on the page before the first chapter
\* segment or, when no chapter segment is kept, covers the whole document;
\* no gap lies between two chapter segments or after the last one.
C12_AtMostOneLeadingGap ==
    pc = "calc_done" =>
        /\ \A i \in 1..(Len(sections) - 1) :
              sections[i + 1].start_page = sections[i].end_page + 1
        /\ Len(unidentified_sections) <= 1
        /\ \A i \in 1..Len(unidentified_sections) :
              LET g == unidentified_sections[i]
              IN /\ g.start_page = 1
                 /\ sections # <<>> => g.end_page + 1 = sections[1].start_page
                 /\ sections = <<>> => g.end_page = total_pages
                 /\ \A j \in 1..Len(sections) : g.end_page < sections[j].start_page

\* a gap before two kept chapters out of three anchors, one of them on a
\* page index the document does not have
C12_Witness ==
    /\ pc = "calc_done"
    /\ Len(unidentified_sections) = 1
    /\ Len(sections) = 2
    /\ Len(top_level_chapters) = 3
    /\ ~AnchorsInRange

(***************************************************************************)
(* SpecFilter: filter_top_level_chapters called on every list of the       *)
(* bounds.  The filter never reads page_index; the i-th anchor is given    *)
(* page i-1, which tells the anchors of a list apart.                      *)
(***************************************************************************)
FilterTitles ==
    { <<"C","h","a","p","t","e","r"," ","3">>,
      <<"C","h","a","p","t","e","r"," ","3",":"," ","C","e","l","l","s">>,
      <<"S","o","l","u","t","i","o","n","s"," ","C","h","a","p","t","e","r"," ","3">>,
      <<"S","e","e"," ","C","h","a","p","t","e","r"," ","3">>,
      <<"c","h","a","p","t","e","r"," ","3">>,
      <<"A","p","p","e","n","d","i","x"," ","A">>,
      <<"1",".","1"," ","S","u","b">>,
      <<"I","n","t","r","o">>,
      <<"G","L","O","S","S","A","R","Y">> }

FilterLevels == {0, 1}

InitFilter ==
    /\ pc = "filter_call"
    /\ \E n \in 0..MaxFilterLen :
          \E ts \in [1..n -> FilterTitles], ls \in [1..n -> FilterLevels] :
              outline_info = [i \in 1..n |-> Anchor(ts[i], i - 1, ls[i])]
    /\ top_level_chapters = <<>>
    /\ total_pages = 0
    /\ outline = <<>>
    /\ max_level = 0
    /\ sections = <<>>
    /\ unidentified_sections = <<>>
    /\ add_sequence = TRUE
    /\ response = NoResponse
    /\ dir_created = FALSE
    /\ files = {}
    /\ manifest = NoManifest
    /\ write_errors = 0
    /\ section_index = 0
    /\ message = NoMessage

\* top_level_chapters = filter_top_level_chapters(outline_info)
CallFilter ==
    /\ pc = "filter_call"
    /\ top_level_chapters' = filter_top_level_chapters(outline_info)
    /\ pc' = "filter_done"
    /\ UNCHANGED <<outline, max_level, outline_info, total_pages, sections,
                   unidentified_sections, add_sequence, response, dir_created,
                   files, manifest, write_errors,
                   section_index, message>>

NextFilter == CallFilter

SpecFilter == InitFilter /\ [][NextFilter]_vars

(***************************************************************************)
(* Notions the properties of the filter are stated in.                     *)
(***************************************************************************)
\* the canonical keys of the input anchors
InputKeys == [i \in 1..Len(outline_info) |-> chapter_key(outline_info[i].title)]

\* the canonical keys of the output anchors
OutputKeys == [k \in 1..Len(top_level_chapters) |-> chapter_key(top_level_chapters[k].title)]

\* the i-th input anchor is in the output
Kept(i) == \E k \in 1..Len(top_level_chapters) : top_level_chapters[k] = outline_info[i]

\* the i-th input anchor matches no exclusion pattern and matches a heading
\* pattern or has depth 0
Eligible(i) ==
    /\ ~is_excluded(outline_info[i].title)
    /\ is_chapter(outline_info[i].title) \/ outline_info[i].level = 0

NoTwoKeptShareKey ==
    LET K == OutputKeys
    IN \A a, b \in 1..Len(top_level_chapters) : (a # b /\ K[a] # NoKey) => K[a] # K[b]

\* an anchor without a key is kept or dropped on its own title and depth
KeylessDecidedAlone ==
    LET K == InputKeys
    IN \A i \in 1..Len(outline_info) : K[i] = NoKey => (Kept(i) <=> Eligible(i))

\* C6 as stated: no two anchors of the output share a canonical key; an
\* anchor with a key that is kept is the first anchor of the input with that
\* key; an anchor without a key is never discarded because of another.
C6_FirstOfKeyKept ==
    pc = "filter_done" =>
        /\ NoTwoKeptShareKey
        /\ LET K == InputKeys
           IN \A i \in 1..Len(outline_info) :
                  (K[i] # NoKey /\ Kept(i)) => \A j \in 1..(i - 1) : K[j] # K[i]
        /\ KeylessDecidedAlone

\* C6 amended: no two anchors of the output share a canonical key; of the
\* anchors that share a key, the one kept is the first in input order among
\* those that match no exclusion pattern and match a heading pattern or have
\* depth 0, and every later one is discarded; an anchor without a key is never
\* discarded because of another.
C6_FirstEligibleOfKeyKept ==
    pc = "filter_done" =>
        /\ NoTwoKeptShareKey
        /\ LET K == InputKeys
           IN \A i \in 1..Len(outline_info) :
                  K[i] # NoKey =>
                      (Kept(i) <=> /\ Eligible(i)
                                   /\ \A j \in 1..(i - 1) : K[j] = K[i] => ~Eligible(j))
        /\ KeylessDecidedAlone

\* three anchors with one key: the first not eligible, the second kept, the
\* third discarded as its duplicate
C6_Witness ==
    /\ pc = "filter_done"
    /\ Len(outline_info) = 3
    /\ InputKeys[1] # NoKey
    /\ InputKeys[2] = InputKeys[1]
    /\ InputKeys[3] = InputKeys[1]
    /\ ~Eligible(1)
    /\ Kept(2)
    /\ Eligible(3)
    /\ ~Kept(3)

\* the anchors of s at the positions of S, in order, from position k on
RECURSIVE PickFrom(_, _, _)
PickFrom(s, S, k) ==
    IF k > Len(s) THEN <<>>
    ELSE (IF k \in S THEN <<s[k]>> ELSE <<>>) \o PickFrom(s, S, k + 1)

\* S is the set of positions the three conditions of the claim select, K the
\* keys and E the positions that satisfy its first two conditions
IsSelection(S, K, E) ==
    \A i \in 1..Len(outline_info) :
        i \in S <=> /\ i \in E
                    /\ K[i] = NoKey \/ \A j \in S : j < i => K[j] # K[i]

\* C7: the output is, in input order, exactly the input anchors that match no
\* exclusion pattern, match a heading pattern or have depth 0, and are not a
\* later duplicate of an accepted key; no anchor with an excluded title is in
\* the output.
C7_ClassificationFilter ==
    pc = "filter_done" =>
        /\ LET K == InputKeys
               E == {i \in 1..Len(outline_info) :
                        /\ ~is_excluded(outline_info[i].title)
                        /\ is_chapter(outline_info[i].title) \/ outline_info[i].level = 0}
           IN \E S \in SUBSET (1..Len(outline_info)) :
                  /\ IsSelection(S, K, E)
                  /\ top_level_chapters = PickFrom(outline_info, S, 1)
        /\ \A k \in 1..Len(top_level_chapters) :
              ~is_excluded(top_level_chapters[k].title)

\* a list with an excluded title in capitals dropped, a heading at depth 1
\* kept, and a plain title at depth 1 dropped
C7_Witness ==
    /\ pc = "filter_done"
    /\ \E i, j, k \in 1..Len(outline_info) :
          /\ is_excluded(outline_info[i].title)
          /\ ~(\E w \in ExcludeWords : LitAt(outline_info[i].title, 1, w))
          /\ ~MatchesSubsection(outline_info[i].title)
          /\ ~Kept(i)
          /\ is_chapter(outline_info[j].title)
          /\ outline_info[j].level = 1
          /\ Kept(j)
          /\ ~is_chapter(outline_info[k].title)
          /\ ~is_excluded(outline_info[k].title)
          /\ outline_info[k].level = 1
          /\ ~Kept(k)

(***************************************************************************)
(* SpecOutline: get_pdf_outline_info called on every outline tree of the   *)
(* bounds with every max_level of the bounds.                              *)
(***************************************************************************)
\* two bookmarks with a page and one whose page does not resolve
OutlineDests == { DestNode(<<"A">>, 0), DestNode(<<"B">>, 1), DestNode(<<"A">>, NoPage) }

\* the lists of nodes with n nodes in all, nested lists never empty
RECURSIVE OutlinesOfSize(_, _)
OutlinesOfSize(dests, n) ==
    IF n = 0 THEN {<<>>}
    ELSE UNION {
           {<<first>> \o rest :
               first \in (IF k = 1 THEN dests
                          ELSE {ListNode(l) : l \in OutlinesOfSize(dests, k - 1)}),
               rest \in OutlinesOfSize(dests, n - k)} :
           k \in 1..n}

InitOutline ==
    /\ pc = "outline_call"
    /\ \E n \in 0..MaxOutlineNodes : outline \in OutlinesOfSize(OutlineDests, n)
    /\ max_level \in 0..MaxLevel
    /\ outline_info = <<>>
    /\ top_level_chapters = <<>>
    /\ total_pages = 0
    /\ sections = <<>>
    /\ unidentified_sections = <<>>
    /\ add_sequence = TRUE
    /\ response = NoResponse
    /\ dir_created = FALSE
    /\ files = {}
    /\ manifest = NoManifest
    /\ write_errors = 0
    /\ section_index = 0
    /\ message = NoMessage

\* outline_info = get_pdf_outline_info(outline, reader, max_level=max_level)
CallOutline ==
    /\ pc = "outline_call"
    /\ outline_info' = get_pdf_outline_info(outline, 0, max_level)
    /\ pc' = "outline_done"
    /\ UNCHANGED <<outline, max_level, top_level_chapters, total_pages, sections,
                   unidentified_sections, add_sequence, response, dir_created,
                   files, manifest, write_errors,
                   section_index, message>>

NextOutline == CallOutline

SpecOutline == InitOutline /\ [][NextOutline]_vars

(***************************************************************************)
(* Notions the properties of the outline walk are stated in.               *)
(***************************************************************************)
\* every bookmark of a tree in traversal order with its depth, resolved or not
RECURSIVE AllBookmarks(_, _)
AllBookmarks(items, depth) ==
    IF items = <<>> THEN <<>>
    ELSE (IF items[1].kind = "dest"
          THEN <<Anchor(items[1].title, items[1].page, depth)>>
          ELSE AllBookmarks(items[1].items, depth + 1))
         \o AllBookmarks(Tail(items), depth)

\* the bookmarks of s with a page and a depth of at most d
RECURSIVE ResolvedUpTo(_, _)
ResolvedUpTo(s, d) ==
    IF s = <<>> THEN <<>>
    ELSE (IF s[1].page_index # NoPage /\ s[1].level <= d THEN <<s[1]>> ELSE <<>>)
         \o ResolvedUpTo(Tail(s), d)

\* the bookmarks with a page among the items of the top-level list itself
RECURSIVE TopLevelResolved(_)
TopLevelResolved(items) ==
    IF items = <<>> THEN <<>>
    ELSE (IF items[1].kind = "dest" /\ items[1].page # NoPage
          THEN <<Anchor(items[1].title, items[1].page, 0)>>
          ELSE <<>>)
         \o TopLevelResolved(Tail(items))

\* C8: get_pdf_outline_info emits exactly the bookmarks with a resolvable page
\* and a depth of at most max_level, in traversal order, each with its true
\* depth; with max_level = 0 these are the resolvable depth-0 bookmarks, those
\* before and after a nested group included, and none from inside a group.
C8_DepthRestriction ==
    pc = "outline_done" =>
        /\ outline_info = ResolvedUpTo(AllBookmarks(outline, 0), max_level)
        /\ max_level = 0 => outline_info = TopLevelResolved(outline)

\* max_level 0 and a depth-0 bookmark, a nested group holding a resolvable
\* bookmark, and another depth-0 bookmark: the two depth-0 ones are emitted
C8_Witness ==
    /\ pc = "outline_done"
    /\ max_level = 0
    /\ Len(outline) = 3
    /\ outline[1].kind = "dest" /\ outline[1].page # NoPage
    /\ outline[2].kind = "list"
    /\ outline[2].items[1].kind = "dest" /\ outline[2].items[1].page # NoPage
    /\ outline[3].kind = "dest" /\ outline[3].page # NoPage
    /\ Len(outline_info) = 2

\* max_level 1 and a tree with a resolvable bookmark at depth 2, left out, and
\* one at depth 1, emitted with level 1
C8_WitnessDeep ==
    /\ pc = "outline_done"
    /\ max_level = 1
    /\ \E i \in 1..Len(AllBookmarks(outline, 0)) :
          /\ AllBookmarks(outline, 0)[i].level = 2
          /\ AllBookmarks(outline, 0)[i].page_index # NoPage
    /\ \E k \in 1..Len(outline_info) : outline_info[k].level = 1

(***************************************************************************)
(* perform_pdf_split and generate_chapter_summary.                         *)
(***************************************************************************)
\* the characters of r'[\\/*?:"<>|]'
InvalidFilenameChars == {"\\", "/", "*", "?", ":", "\"", "<", ">", "|"}

\* re.sub(r'[\\/*?:"<>|]', '_', name), line 254
CleanedName(name) ==
    [k \in 1..Len(name) |-> IF name[k] \in InvalidFilenameChars THEN "_" ELSE name[k]]

\* num_digits = len(str(total_sections)), line 231
NumDigits(total_sections) == Len(IntToStr(total_sections))

\* output_filename of the i-th section (1-based: i is the code's i+1), lines 257-261
OutputFilename(name, i, total_sections, with_sequence) ==
    IF with_sequence
    THEN ZeroPad(i, NumDigits(total_sections)) \o <<"_">> \o CleanedName(name) \o PdfSuffix
    ELSE CleanedName(name) \o PdfSuffix

\* the test of lines 239-241 negated: the section is written
SplitRangeValid(section, page_count) ==
    ~(\/ section.start_page - 1 < 0
      \/ section.end_page - 1 >= page_count
      \/ section.start_page - 1 > section.end_page - 1)

\* a file of the output directory: its name, the pages of the source it was
\* opened for, and whether writer.write completed
OutputFile(filename, section, complete) ==
    [name |-> filename, start_page |-> section.start_page,
     end_page |-> section.end_page, complete |-> complete]

\* the directory after open(output_filepath, 'wb') and the write, lines 267-268:
\* a file of that name is replaced
WriteFile(dir, file) == {f \in dir : f.name # file.name} \cup {file}

\* 'Chapter Number' of the i-th row (1-based), lines 207-208
ChapterNumber(name, i) ==
    IF KeySearchFrom(name, 1) # 0
    THEN KeyIdentifierAt(name, KeySearchFrom(name, 1))
    ELSE UnidentifiedWord \o IntToStr(i)

\* the rows written at lines 205-216
SummaryRows(secs) ==
    [i \in 1..Len(secs) |->
        [number |-> ChapterNumber(secs[i].name, i),
         name |-> secs[i].name,
         start_page |-> secs[i].start_page,
         end_page |-> secs[i].end_page,
         total_pages |-> secs[i].total_pages]]

(***************************************************************************)
(* Spec: one run of split_pdf_by_chapters.                                 *)
(***************************************************************************)
RunTitles ==
    { <<"C","h","a","p","t","e","r"," ","1">>,
      <<"A",":","B">>,
      <<"A","?","B">>,
      <<"I","n","d","e","x">> }

\* the bookmarks of the document: any title on any page, or on no page
RunDests == {DestNode(t, p) : t \in RunTitles, p \in {NoPage} \cup (0..MaxRunPageIndex)}

\* what the user may type at the prompt
Responses == { <<"y">>, <<"Y">>, <<"n">>, <<"y","e","s">>, <<>> }

\* the answer of line 346 that cancels nothing
Proceeds_UnlessNo(r) == Lower(r) # <<"n">>

\* the test of line 346 negated: the run goes on to split
Proceeds(r) == ~(Lower(r) # <<"y">>)

Init ==
    /\ pc = "start"
    /\ add_sequence \in BOOLEAN
    /\ outline = <<>>
    /\ max_level = 0
    /\ outline_info = <<>>
    /\ top_level_chapters = <<>>
    /\ total_pages = 0
    /\ sections = <<>>
    /\ unidentified_sections = <<>>
    /\ response = NoResponse
    /\ dir_created = FALSE
    /\ files = {}
    /\ manifest = NoManifest
    /\ write_errors = 0
    /\ section_index = 0
    /\ message = NoMessage

\* lines 277-279: the input file does not exist
InputMissing ==
    /\ pc = "start"
    /\ pc' = "done"
    /\ message' = "input file does not exist"
    /\ UNCHANGED <<outline, max_level, outline_info, top_level_chapters, total_pages,
                   sections, unidentified_sections, add_sequence, response,
                   dir_created, files, manifest, write_errors, section_index>>

\* lines 277-289: the input file exists
InputExists ==
    /\ pc = "start"
    /\ pc' = "open"
    /\ UNCHANGED <<outline, max_level, outline_info, top_level_chapters, total_pages,
                   sections, unidentified_sections, add_sequence, response,
                   dir_created, files, manifest, write_errors, section_index, message>>

\* lines 293-294 raise (an unreadable document): caught at line 358
OpenFails ==
    /\ pc = "open"
    /\ pc' = "done"
    /\ message' = "error processing PDF file"
    /\ UNCHANGED <<outline, max_level, outline_info, top_level_chapters, total_pages,
                   sections, unidentified_sections, add_sequence, response,
                   dir_created, files, manifest, write_errors, section_index>>

\* lines 293-301: the reader gives the page count and the outline of the document
OpenDocument ==
    /\ pc = "open"
    /\ \E n \in 0..MaxRunNodes : outline' \in OutlinesOfSize(RunDests, n)
    /\ total_pages' \in 0..MaxRunPages
    /\ IF outline' = <<>>
       THEN pc' = "done" /\ message' = "no outline"
       ELSE pc' = "extract" /\ message' = message
    /\ UNCHANGED <<max_level, outline_info, top_level_chapters, sections,
                   unidentified_sections, add_sequence, response, dir_created,
                   files, manifest, write_errors, section_index>>

\* [item for item in outline_info if item.get("page_index") is not None], line 308
RECURSIVE WithPage(_)
WithPage(s) ==
    IF s = <<>> THEN <<>>
    ELSE (IF s[1].page_index # NoPage THEN <<s[1]>> ELSE <<>>) \o WithPage(Tail(s))

\* lines 305-314
ExtractOutline ==
    /\ pc = "extract"
    /\ outline_info' = WithPage(get_pdf_outline_info(outline, 0, 0))
    /\ IF outline_info' = <<>>
       THEN pc' = "done" /\ message' = "no valid bookmark information"
       ELSE pc' = "filter" /\ message' = message
    /\ UNCHANGED <<outline, max_level, top_level_chapters, total_pages, sections,
                   unidentified_sections, add_sequence, response, dir_created,
                   files, manifest, write_errors, section_index>>

\* lines 317-327: the filter, and every bookmark when it keeps none
FilterChapters ==
    /\ pc = "filter"
    /\ top_level_chapters' =
           (IF filter_top_level_chapters(outline_info) = <<>>
            THEN outline_info
            ELSE filter_top_level_chapters(outline_info))
    /\ IF top_level_chapters' = <<>>
       THEN pc' = "done" /\ message' = "no valid chapters"
       ELSE pc' = "calculate" /\ message' = message
    /\ UNCHANGED <<outline, max_level, outline_info, total_pages, sections,
                   unidentified_sections, add_sequence, response, dir_created,
                   files, manifest, write_errors, section_index>>

\* sections.extend(unidentified_sections), line 341
MergeSections(secs, gaps) == secs \o gaps

\* lines 330-341: the list handed in is sorted in place, and it is outline_info
\* itself when the filter kept nothing
CalculateRanges ==
    /\ pc = "calculate"
    /\ top_level_chapters' = SortByPageIndex(top_level_chapters)
    /\ outline_info' =
           (IF filter_top_level_chapters(outline_info) = <<>>
            THEN SortByPageIndex(outline_info)
            ELSE outline_info)
    /\ unidentified_sections' = calculate_page_ranges(top_level_chapters, total_pages)[2]
    /\ sections' = MergeSections(calculate_page_ranges(top_level_chapters, total_pages)[1],
                                 calculate_page_ranges(top_level_chapters, total_pages)[2])
    /\ IF sections' = <<>>
       THEN pc' = "done" /\ message' = "no valid sections"
       ELSE pc' = "confirm" /\ message' = message
    /\ UNCHANGED <<outline, max_level, total_pages, add_sequence, response,
                   dir_created, files, manifest, write_errors, section_index>>

\* lines 345-348: the prompt
Confirm ==
    /\ pc = "confirm"
    /\ response' \in Responses
    /\ IF Proceeds(response')
       THEN pc' = "split" /\ message' = message
       ELSE pc' = "done" /\ message' = "operation cancelled"
    /\ UNCHANGED <<outline, max_level, outline_info, top_level_chapters, total_pages,
                   sections, unidentified_sections, add_sequence, dir_created,
                   files, manifest, write_errors, section_index>>

\* os.makedirs(output_dir, exist_ok=True), line 227
MakeOutputDir ==
    /\ pc = "split"
    /\ dir_created' = TRUE
    /\ section_index' = 1
    /\ pc' = "sections"
    /\ UNCHANGED <<outline, max_level, outline_info, top_level_chapters, total_pages,
                   sections, unidentified_sections, add_sequence, response,
                   files, manifest, write_errors, message>>

\* line 227 raises: caught at line 358
MakeOutputDirFails ==
    /\ pc = "split"
    /\ pc' = "done"
    /\ message' = "error processing PDF file"
    /\ UNCHANGED <<outline, max_level, outline_info, top_level_chapters, total_pages,
                   sections, unidentified_sections, add_sequence, response,
                   dir_created, files, manifest, write_errors, section_index>>

\* lines 239-243: the section's range is not valid, it is skipped
SkipSection ==
    /\ pc = "sections"
    /\ section_index <= Len(sections)
    /\ ~SplitRangeValid(sections[section_index], total_pages)
    /\ section_index' = section_index + 1
    /\ UNCHANGED <<pc, outline, max_level, outline_info, top_level_chapters,
                   total_pages, sections, unidentified_sections, add_sequence,
                   response, dir_created, files, manifest, write_errors, message>>

\* lines 245-269: the section's file is written
WriteSection ==
    /\ pc = "sections"
    /\ section_index <= Len(sections)
    /\ SplitRangeValid(sections[section_index], total_pages)
    /\ files' = WriteFile(files,
                    OutputFile(OutputFilename(sections[section_index].name, section_index,
                                              Len(sections), add_sequence),
                               sections[section_index], TRUE))
    /\ section_index' = section_index + 1
    /\ UNCHANGED <<pc, outline, max_level, outline_info, top_level_chapters,
                   total_pages, sections, unidentified_sections, add_sequence,
                   response, dir_created, manifest, write_errors, message>>

\* line 267 raises: no file is opened; caught at line 270
OpenSectionFileFails ==
    /\ pc = "sections"
    /\ section_index <= Len(sections)
    /\ SplitRangeValid(sections[section_index], total_pages)
    /\ write_errors' = write_errors + 1
    /\ section_index' = section_index + 1
    /\ UNCHANGED <<pc, outline, max_level, outline_info, top_level_chapters,
                   total_pages, sections, unidentified_sections, add_sequence,
                   response, dir_created, files, manifest, message>>

\* line 268 raises: the file was opened (and truncated) and is left incomplete;
\* caught at line 270
WriteSectionFails ==
    /\ pc = "sections"
    /\ section_index <= Len(sections)
    /\ SplitRangeValid(sections[section_index], total_pages)
    /\ files' = WriteFile(files,
                    OutputFile(OutputFilename(sections[section_index].name, section_index,
                                              Len(sections), add_sequence),
                               sections[section_index], FALSE))
    /\ write_errors' = write_errors + 1
    /\ section_index' = section_index + 1
    /\ UNCHANGED <<pc, outline, max_level, outline_info, top_level_chapters,
                   total_pages, sections, unidentified_sections, add_sequence,
                   response, dir_created, manifest, message>>

\* the loop of line 233 is over: perform_pdf_split returns
SplitDone ==
    /\ pc = "sections"
    /\ section_index > Len(sections)
    /\ pc' = "summary"
    /\ UNCHANGED <<outline, max_level, outline_info, top_level_chapters, total_pages,
                   sections, unidentified_sections, add_sequence, response,
                   dir_created, files, manifest, write_errors, section_index, message>>

\* lines 354-356: the manifest is written
WriteSummary ==
    /\ pc = "summary"
    /\ manifest' = [written |-> TRUE, rows |-> SummaryRows(sections)]
    /\ pc' = "done"
    /\ message' = "completed"
    /\ UNCHANGED <<outline, max_level, outline_info, top_level_chapters, total_pages,
                   sections, unidentified_sections, add_sequence, response,
                   dir_created, files, write_errors, section_index>>

\* line 199 raises: caught at line 220, and line 356 still prints the success
WriteSummaryFails ==
    /\ pc = "summary"
    /\ pc' = "done"
    /\ message' = "completed"
    /\ UNCHANGED <<outline, max_level, outline_info, top_level_chapters, total_pages,
                   sections, unidentified_sections, add_sequence, response,
                   dir_created, files, manifest, write_errors, section_index>>

Next ==
    \/ InputMissing
    \/ InputExists
    \/ OpenFails
    \/ OpenDocument
    \/ ExtractOutline
    \/ FilterChapters
    \/ CalculateRanges
    \/ Confirm
    \/ MakeOutputDir
    \/ MakeOutputDirFails
    \/ SkipSection
    \/ WriteSection
    \/ OpenSectionFileFails
    \/ WriteSectionFails
    \/ SplitDone
    \/ WriteSummary
    \/ WriteSummaryFails

Spec == Init /\ [][Next]_vars

(***************************************************************************)
(* Properties of the run.                                                  *)
(***************************************************************************)
\* C4: the segment list handed to perform_pdf_split and to
\* generate_chapter_summary is in ascending start_page order.
C4_SegmentsInPageOrder ==
    pc \in {"split", "sections", "summary"} =>
        \A i \in 1..(Len(sections) - 1) :
            sections[i].start_page <= sections[i + 1].start_page

\* the answer the prompt returned is 'y' or 'Y'
ConfirmedYes == response # NoResponse /\ Lower(response) = <<"y">>

NothingWritten == ~dir_created /\ files = {} /\ ~manifest.written

\* the messages of the runs that end before the prompt or at it
EarlyEnds ==
    { "input file does not exist", "no outline", "no valid bookmark information",
      "no valid chapters", "no valid sections", "operation cancelled" }

\* C5: no output directory, artifact or manifest exists unless the prompt has
\* returned 'y' or 'Y', and a run that ended early (missing input, no outline,
\* no resolvable anchor, empty planning result, any other answer) has written
\* nothing.
C5_ConfirmationGate ==
    /\ ~NothingWritten => ConfirmedYes
    /\ (pc = "done" /\ message \in EarlyEnds) => NothingWritten

\* a run with two segments planned, answered "yes": cancelled, nothing written
C5_Witness ==
    /\ pc = "done"
    /\ message = "operation cancelled"
    /\ response = <<"y","e","s">>
    /\ Len(sections) = 2
    /\ NothingWritten

\* C9: after a confirmed run in which every segment has a valid range and every
\* write succeeds, the output directory holds one complete artifact per
\* segment, each its own file, and the manifest one row per segment, with and
\* without sequence prefixes.
C9_OneArtifactPerSegment ==
    (/\ pc = "done"
     /\ message = "completed"
     /\ manifest.written
     /\ write_errors = 0
     /\ \A i \in 1..Len(sections) : SplitRangeValid(sections[i], total_pages))
        => /\ Cardinality(files) = Len(sections)
           /\ \A i \in 1..Len(sections) :
                 \E f \in files : /\ f.start_page = sections[i].start_page
                                  /\ f.end_page = sections[i].end_page
                                  /\ f.complete
           /\ Len(manifest.rows) = Len(sections)

\* the file name perform_pdf_split gives the section at section_index
CurrentFilename ==
    OutputFilename(sections[section_index].name, section_index, Len(sections), add_sequence)

\* one step of perform_pdf_split and generate_chapter_summary as C11 has it
C11_Step ==
    /\ (pc = "sections" /\ section_index <= Len(sections)) =>
          /\ pc' = "sections"
          /\ section_index' = section_index + 1
          /\ sections' = sections
          /\ (\/ ~SplitRangeValid(sections[section_index], total_pages)
              \/ write_errors' > write_errors) => files' = files
          /\ (/\ SplitRangeValid(sections[section_index], total_pages)
              /\ write_errors' = write_errors)
                 => OutputFile(CurrentFilename, sections[section_index], TRUE) \in files'
    /\ (pc = "sections" /\ section_index > Len(sections)) => pc' = "summary"
    /\ pc = "summary" =>
          /\ pc' = "done"
          /\ files' = files
          /\ manifest'.written =>
                /\ Len(manifest'.rows) = Len(sections)
                /\ \A i \in 1..Len(sections) :
                      /\ manifest'.rows[i].name = sections[i].name
                      /\ manifest'.rows[i].start_page = sections[i].start_page
                      /\ manifest'.rows[i].end_page = sections[i].end_page

\* C11: in perform_pdf_split a segment with an invalid range, or whose write
\* fails, leaves the output directory as it was and the loop goes on to the
\* next segment; a valid segment whose write succeeds gets its artifact; after
\* the last segment the manifest writer runs once over the full list, and
\* whether or not it fails the artifacts stay in place.
C11_PerSegmentTolerance == [][C11_Step]_vars

====
